---- MODULE Spec2Model ----
(***************************************************************************)
(* Interleaved forward fixpoint iterator (ikos/core/fixpoint/              *)
(* fwd_fixpoint_iterator.hpp): InterleavedFwdFixpointIterator with its two *)
(* WTO visitors, WtoIterator (the iteration driver) and WtoProcessor (the  *)
(* post-processor).  The abstract domain, the graph and its weak           *)
(* topological order are template parameters of the iterator; they are     *)
(* drawn here from small sets of interval programs.                        *)
(***************************************************************************)
EXTENDS Integers, Sequences, FiniteSets, TLC

VARIABLES conf, init, fresh, clean, _pre, _post, mode, stack, calls, lastVisit, done, rd,
          twin, _wto, null

vars == <<conf, init, fresh, clean, _pre, _post, mode, stack, calls, lastVisit, done, rd,
          twin, _wto, null>>

(***************************************************************************)
(* Bounds of the model.                                                    *)
(***************************************************************************)
\* largest finite interval bound; the bounds above it are abstracted to +oo
MaxVal == 10
\* number of run() calls in one behaviour
MaxRuns == 2
\* number of copy and move operations in one behaviour
MaxCopies == 2
\* number of pre()/post() reads a client makes between runs
MaxReads == 2

(***************************************************************************)
(* AbstractValue: intervals [lb, ub] over 0..MaxVal with infinite bounds.  *)
(***************************************************************************)
NegInf == 0 - 1
PosInf == MaxVal + 1

Bottom == [lb |-> PosInf, ub |-> NegInf]
Top == [lb |-> NegInf, ub |-> PosInf]

Min(a, b) == IF a <= b THEN a ELSE b
Max(a, b) == IF a >= b THEN a ELSE b

Mk(l, u) == IF l > u THEN Bottom ELSE [lb |-> l, ub |-> u]

Values == {Mk(l, u) : l \in NegInf..MaxVal, u \in 0..PosInf}

is_bottom(v) == v.lb > v.ub

leq(a, b) == is_bottom(a) \/ (~is_bottom(b) /\ b.lb <= a.lb /\ a.ub <= b.ub)

join(a, b) ==
  IF is_bottom(a) THEN b
  ELSE IF is_bottom(b) THEN a
  ELSE Mk(Min(a.lb, b.lb), Max(a.ub, b.ub))

meet(a, b) ==
  IF is_bottom(a) \/ is_bottom(b) THEN Bottom
  ELSE Mk(Max(a.lb, b.lb), Min(a.ub, b.ub))

join_loop(a, b) == join(a, b)

join_iter(a, b) == join(a, b)

\* the widenings a client domain is run with: the interval widening, the
\* join (no extrapolation) and the identity, a widen_with that leaves the
\* receiver as it is
widen(k, a, b) ==
  CASE k = "join" -> join(a, b)
    [] k = "before" -> a
    [] OTHER ->
         IF is_bottom(a) THEN b
         ELSE IF is_bottom(b) THEN a
         ELSE Mk(IF b.lb < a.lb THEN NegInf ELSE a.lb,
                 IF b.ub > a.ub THEN PosInf ELSE a.ub)

\* interval narrowing: an infinite bound of a is refined by the bound of b
narrow(a, b) ==
  IF is_bottom(a) \/ is_bottom(b) THEN Bottom
  ELSE Mk(IF a.lb = NegInf THEN b.lb ELSE a.lb,
          IF a.ub = PosInf THEN b.ub ELSE a.ub)

(***************************************************************************)
(* Transfer functions of the client: analyze_node and analyze_edge.        *)
(* All of them are monotone and strict.                                    *)
(***************************************************************************)
\* x := x + 1; a bound that leaves 0..MaxVal is over-approximated
Inc(v) ==
  IF is_bottom(v) THEN Bottom
  ELSE Mk(IF v.lb = NegInf THEN NegInf ELSE Min(v.lb + 1, MaxVal),
          IF v.ub >= MaxVal THEN PosInf ELSE v.ub + 1)

NodeFn(f, v) ==
  CASE f = "inc" -> Inc(v)
    [] OTHER -> v

EdgeFn(f, v) ==
  CASE f = "le1" -> meet(v, Mk(NegInf, 1))
    [] f = "le2" -> meet(v, Mk(NegInf, 2))
    [] f = "ge2" -> meet(v, Mk(2, PosInf))
    [] f = "ge3" -> meet(v, Mk(3, PosInf))
    [] f = "le9" -> meet(v, Mk(NegInf, 9))
    [] f = "ge10" -> meet(v, Mk(10, PosInf))
    [] OTHER -> v

(***************************************************************************)
(* Graphs with their weak topological order.  A component is a vertex or a *)
(* cycle with a head and a body.                                           *)
(***************************************************************************)
Vertex(n) == [t |-> "vertex", n |-> n, body |-> <<>>]
Cycle(h, b) == [t |-> "cycle", n |-> h, body |-> b]

NoPreds == <<>>

Graphs ==
  [line |->
     [nodes |-> {"A", "B", "C"}, entry |-> "A",
      preds |-> [A |-> NoPreds, B |-> <<"A">>, C |-> <<"B">>],
      wto |-> <<Vertex("A"), Vertex("B"), Vertex("C")>>],
   loop |->
     [nodes |-> {"A", "B", "C", "D"}, entry |-> "A",
      preds |-> [A |-> NoPreds, B |-> <<"A", "C">>, C |-> <<"B">>, D |-> <<"C">>],
      wto |-> <<Vertex("A"), Cycle("B", <<Vertex("C")>>), Vertex("D")>>],
   nest |->
     [nodes |-> {"A", "H1", "H2", "B1", "B2"}, entry |-> "A",
      preds |-> [A |-> NoPreds, H1 |-> <<"A", "H2">>, H2 |-> <<"H1", "B1", "B2">>,
                 B1 |-> <<"H2">>, B2 |-> <<"H2">>],
      wto |-> <<Vertex("A"),
                Cycle("H1", <<Cycle("H2", <<Vertex("B1"), Vertex("B2")>>)>>)>>],
   self |->
     [nodes |-> {"A", "B"}, entry |-> "A",
      preds |-> [A |-> <<"A">>, B |-> <<"A">>],
      wto |-> <<Cycle("A", <<>>), Vertex("B")>>],
   ring |->
     [nodes |-> {"A", "B"}, entry |-> "A",
      preds |-> [A |-> <<"B">>, B |-> <<"A">>],
      wto |-> <<Cycle("A", <<Vertex("B")>>)>>],
   selfh |->
     [nodes |-> {"A", "H", "B"}, entry |-> "A",
      preds |-> [A |-> NoPreds, H |-> <<"A", "H">>, B |-> <<"H">>],
      wto |-> <<Vertex("A"), Cycle("H", <<>>), Vertex("B")>>],
   dead |->
     [nodes |-> {"A", "B", "C", "X"}, entry |-> "A",
      preds |-> [A |-> NoPreds, B |-> <<"A", "C">>, C |-> <<"B", "X">>,
                 X |-> NoPreds],
      wto |-> <<Vertex("A"), Cycle("B", <<Vertex("C")>>)>>],
   deep |->
     [nodes |-> {"A", "H1", "H2", "B"}, entry |-> "A",
      preds |-> [A |-> NoPreds, H1 |-> <<"A", "B">>, H2 |-> <<"H1", "B">>,
                 B |-> <<"H2">>],
      wto |-> <<Vertex("A"), Cycle("H1", <<Cycle("H2", <<Vertex("B")>>)>>)>>],
   sib |->
     [nodes |-> {"A", "H1", "B", "H2", "C"}, entry |-> "A",
      preds |-> [A |-> NoPreds, H1 |-> <<"A", "B">>, B |-> <<"H1">>,
                 H2 |-> <<"B", "C">>, C |-> <<"H2">>],
      wto |-> <<Vertex("A"), Cycle("H1", <<Vertex("B")>>),
                Cycle("H2", <<Vertex("C")>>)>>]]

GraphNames == DOMAIN Graphs

G == Graphs[conf.g]

Range(s) == {s[i] : i \in DOMAIN s}

Edges(g) == {e \in Graphs[g].nodes \X Graphs[g].nodes :
               e[1] \in Range(Graphs[g].preds[e[2]])}

(***************************************************************************)
(* The programs analysed: for every graph, the transfer functions a node   *)
(* or an edge may carry.                                                   *)
(***************************************************************************)
NodeFns == {"id", "inc"}
EdgeFns == {"id", "le1", "le2", "ge2", "ge3"}

NodeChoice(g, n) ==
  CASE g = "line" -> {"id", "inc"}
    [] g = "loop" /\ n = "C" -> {"id", "inc"}
    [] g = "nest" /\ n = "B1" -> {"id", "inc"}
    [] g = "self" /\ n = "A" -> {"id", "inc"}
    [] g = "ring" /\ n = "B" -> {"id", "inc"}
    [] g = "selfh" /\ n = "H" -> {"id", "inc"}
    [] g = "dead" /\ n \in {"C", "X"} -> {"id", "inc"}
    [] g = "deep" /\ n = "B" -> {"id", "inc"}
    [] g = "sib" /\ n = "C" -> {"id", "inc"}
    [] OTHER -> {"id"}

EdgeChoice(g, e) ==
  CASE g = "loop" /\ e = <<"B", "C">> -> {"id", "le1", "le2"}
    [] g = "loop" /\ e = <<"C", "D">> -> {"id", "ge2"}
    [] g = "nest" /\ e = <<"H1", "H2">> -> {"id", "le2"}
    [] g = "nest" /\ e = <<"H2", "B1">> -> {"id", "le1"}
    [] g = "nest" /\ e = <<"H2", "B2">> -> {"id", "ge3"}
    [] g = "nest" /\ e = <<"H2", "H1">> -> {"id", "le1", "ge3"}
    [] g = "self" /\ e = <<"A", "A">> -> {"id", "le2"}
    [] g = "ring" /\ e = <<"A", "B">> -> {"id", "le2"}
    [] g = "selfh" /\ e = <<"H", "H">> -> {"id", "le2"}
    [] g = "deep" /\ e = <<"H2", "B">> -> {"id", "le2"}
    [] g = "sib" /\ e = <<"H2", "C">> -> {"id", "le2"}
    [] OTHER -> {"id"}

Programs(g) ==
  {[g |-> g, nf |-> nf, ef |-> ef] :
     nf \in {f \in [Graphs[g].nodes -> NodeFns] :
               \A n \in Graphs[g].nodes : f[n] \in NodeChoice(g, n)},
     ef \in {f \in [Edges(g) -> EdgeFns] :
               \A e \in Edges(g) : f[e] \in EdgeChoice(g, e)}}

\* the domain's widening and the client's override of the narrowing test
Domains ==
  {[widen |-> "widen", hooks |-> "default"],
   [widen |-> "join", hooks |-> "default"],
   [widen |-> "widen", hooks |-> "one_pass"]}

Conf(p, d) ==
  [g |-> p.g, nf |-> p.nf, ef |-> p.ef, widen |-> d.widen, hooks |-> d.hooks]

Confs == {Conf(p, d) : p \in UNION {Programs(g) : g \in GraphNames}, d \in Domains}

Inits == {Mk(0, 0), Mk(0, 2)}

analyze_node(n, v) == NodeFn(conf.nf[n], v)

analyze_edge(p, n, v) == EdgeFn(conf.ef[<<p, n>>], v)

(***************************************************************************)
(* Wto: the nesting of a node is the list of the heads of the cycles that  *)
(* contain it, outermost first; the head of a cycle is not in its own      *)
(* nesting.                                                                *)
(***************************************************************************)
RECURSIVE NestingIn(_, _, _)
NestingIn(comps, n, acc) ==
  IF comps = <<>> THEN {}
  ELSE LET c == Head(comps)
           here == IF c.n = n THEN {acc}
                   ELSE IF c.t = "cycle" THEN NestingIn(c.body, n, Append(acc, c.n))
                   ELSE {}
       IN  here \cup NestingIn(Tail(comps), n, acc)

RECURSIVE WtoNodes(_)
WtoNodes(comps) ==
  IF comps = <<>> THEN <<>>
  ELSE <<Head(comps).n>> \o WtoNodes(Head(comps).body) \o WtoNodes(Tail(comps))

NestingTable ==
  [g \in GraphNames |->
     [n \in Range(WtoNodes(Graphs[g].wto)) |->
        CHOOSE x \in NestingIn(Graphs[g].wto, n, <<>>) : TRUE]]

nesting(n) == NestingTable[conf.g][n]

\* operator> of WtoNesting: a is strictly more deeply nested than b
NestingGT(a, b) == Len(a) > Len(b) /\ SubSeq(a, 1, Len(b)) = b

WtoNodeSet == DOMAIN NestingTable[conf.g]

InWto(n) == n \in WtoNodeSet

RECURSIVE CycleHeads(_)
CycleHeads(comps) ==
  IF comps = <<>> THEN {}
  ELSE (IF Head(comps).t = "cycle" THEN {Head(comps).n} ELSE {})
       \cup CycleHeads(Head(comps).body) \cup CycleHeads(Tail(comps))

Heads == CycleHeads(G.wto)

(***************************************************************************)
(* Invariant tables: unordered_map< NodeRef, AbstractValue >, a function   *)
(* whose domain is the set of keys present.                                *)
(***************************************************************************)
EmptyTable == [x \in {} |-> Bottom]

\* find + assignment or emplace: the entry of node is overwritten
set(table, node, inv) ==
  [x \in DOMAIN table \cup {node} |-> IF x = node THEN inv ELSE table[x]]

\* the value get() returns: the stored one, bottom on a miss
get(table, node) == IF node \in DOMAIN table THEN table[node] ELSE Bottom

\* a miss that emplaces a default-constructed value (top) instead of bottom
touch_default(table, node) ==
  [x \in DOMAIN table \cup {node} |-> IF x \in DOMAIN table THEN table[x] ELSE Top]

\* the table get() leaves behind: a miss emplaces bottom
touch(table, node) ==
  [x \in DOMAIN table \cup {node} |-> IF x \in DOMAIN table THEN table[x] ELSE Bottom]

RECURSIVE touchAll(_, _)
touchAll(table, ns) ==
  IF ns = <<>> THEN table ELSE touchAll(touch(table, Head(ns)), Tail(ns))

(***************************************************************************)
(* The hooks of the iterator, with their default bodies.                   *)
(***************************************************************************)
\* The iteration counter of a cycle visit is an unsigned of 32 bits (line
\* 321).  It is held as the same 32 bits read as a signed integer: a value
\* u < 2^31 as u, a value u >= 2^31 as u - 2^32, so that 2^32 - 1 is -1 and
\* the counter goes ..., -2, -1, 0, 1, ... when it wraps.
MaxSigned == 2147483647

\* a counter that stays at its largest value, 2^32 - 1
Increment_saturating(i) == IF i = -1 THEN -1 ELSE i + 1

\* ++iteration, line 321
Increment(i) == IF i = MaxSigned THEN (-MaxSigned) - 1 ELSE i + 1

\* iteration <= 1, line 186, on the unsigned value
AtMostOne(iteration) == iteration \in {0, 1}

\* an extrapolation that always applies the interval widening after the
\* first iteration, whatever operator the domain provides
extrapolate_widening(head, iteration, before, after) ==
  IF AtMostOne(iteration) THEN join_iter(before, after)
  ELSE widen("widen", before, after)

\* lines 182-193
extrapolate(head, iteration, before, after) ==
  IF AtMostOne(iteration) THEN join_iter(before, after)
  ELSE widen(conf.widen, before, after)

\* a fixpoint test that asks for a strict decrease
is_increasing_iterations_fixpoint(before, after) == leq(after, before)

\* a refinement that keeps the value before the iteration
refine_before(head, iteration, before, after) == before

refine(head, iteration, before, after) == narrow(before, after)

\* the default test; a client that runs one narrowing pass answers true
is_decreasing_iterations_fixpoint(before, after) ==
  IF conf.hooks = "one_pass" THEN TRUE ELSE leq(before, after)

(***************************************************************************)
(* The joins over the predecessors of a node.                              *)
(***************************************************************************)
RECURSIVE JoinEdges(_, _, _, _)
JoinEdges(acc, ps, node, post) ==
  IF ps = <<>> THEN acc
  ELSE JoinEdges(join(acc, analyze_edge(Head(ps), node, get(post, Head(ps)))),
                 Tail(ps), node, post)

\* predecessors of head that are not more deeply nested than the head
Incoming(head) ==
  SelectSeq(G.preds[head], LAMBDA p : ~NestingGT(nesting(p), nesting(head)))

\* predecessors of head whose innermost cycle is the one of the head
BackEdges_innermost(head) ==
  SelectSeq(G.preds[head],
            LAMBDA p : nesting(p) = Append(nesting(head), head))

\* predecessors of head that are more deeply nested than the head
BackEdges(head) ==
  SelectSeq(G.preds[head], LAMBDA p : NestingGT(nesting(p), nesting(head)))

(***************************************************************************)
(* The visit of the WTO: a stack of frames, one per component list being   *)
(* walked (the root list, the body of a cycle) and one per cycle visit.    *)
(***************************************************************************)
NoEvents == <<>>

Event(op, iteration, ok) == [op |-> op, iteration |-> iteration, ok |-> ok]

ListFrame(comps) ==
  [t |-> "list", comps |-> comps, i |-> 1, head |-> "", pre |-> Bottom,
   kind |-> "", iteration |-> 0, at |-> "", ev |-> NoEvents, nExt |-> 0, nRef |-> 0,
   written |-> {}]

\* the locals of visit(const WtoCycleT&): pre, kind, iteration; ev holds the
\* hook calls of the last loop iteration, nExt and nRef count the calls so
\* far, written holds the nodes whose post was set since the current loop
\* iteration began
CycleFrame(c, pre) ==
  [t |-> "cycle", comps |-> c.body, i |-> 0, head |-> c.n, pre |-> pre,
   kind |-> "Increasing", iteration |-> 1, at |-> "head", ev |-> NoEvents,
   nExt |-> 0, nRef |-> 0, written |-> {}]

NoVisit == [head |-> "", kind |-> "", ev |-> NoEvents, nExt |-> 0, nRef |-> 0]

top == stack[Len(stack)]

Pop == SubSeq(stack, 1, Len(stack) - 1)

ReplaceTop(f) == [stack EXCEPT ![Len(stack)] = f]

AtComponent(t) ==
  /\ stack # <<>>
  /\ top.t = "list"
  /\ top.i <= Len(top.comps)
  /\ top.comps[top.i].t = t

AtEnd == stack # <<>> /\ top.t = "list" /\ top.i > Len(top.comps)

Advance == [top EXCEPT !.i = @ + 1]

\* set_post(node, ...) is seen by every visit in progress: in the frame of
\* the root list, written holds the nodes whose post was set since run()
\* started
Mark(stk, node) ==
  [k \in DOMAIN stk |-> [stk[k] EXCEPT !.written = @ \cup {node}]]

(***************************************************************************)
(* InterleavedFwdFixpointIterator::run and clear                           *)
(***************************************************************************)
\* a call that dereferences a null _pre or _post (lines 125, 147): undefined
\* behaviour; the process is killed by the signal and no call follows
Killed ==
  /\ mode' = "killed"
  /\ UNCHANGED <<conf, init, fresh, clean, _pre, _post, stack, calls, lastVisit, done, rd,
                 twin, _wto, null>>

\* lines 237-243: set_pre(entry, init), then the driver walks _wto
run(v) ==
  /\ mode = "idle"
  /\ IF null
     THEN Killed
     ELSE /\ Len(done) < MaxRuns
          /\ init' = v
          /\ clean' = fresh
          /\ fresh' = FALSE
          /\ _pre' = set(_pre, G.entry, v)
          /\ mode' = "iterate"
          /\ stack' = <<ListFrame(_wto)>>
          /\ calls' = <<>>
          /\ lastVisit' = NoVisit
          /\ UNCHANGED <<conf, _post, done, rd, twin, _wto, null>>

\* twin: a second iterator object, made from this one or assigned to it
\* (lines 101-114).  ptr says where its two shared_ptr members point: to the
\* tables of this iterator ("shared"), to tables of its own ("own", held in
\* pre and post), or nowhere ("null", after a move); wto is its _wto member.
\* fresh: its own tables were written by no run; linked: it shares the tables
\* of this iterator; made: the number of copy and move operations so far.
\* reads, tab, node and val are the reads made through it and the last of
\* them.  run: it is the caller of the run in progress; the driver
\* then works on its members, which are in _pre, _post, _wto, fresh and null
\* until the run returns, the members of this iterator being kept in twin.
NoTwin ==
  [exists |-> FALSE, ptr |-> "own", linked |-> FALSE, fresh |-> FALSE, made |-> 0,
   pre |-> EmptyTable, post |-> EmptyTable, wto |-> <<>>, run |-> FALSE,
   reads |-> 0, tab |-> "", node |-> "", val |-> Bottom]

\* this iterator drops its references: a copy that shared the tables is now
\* their only owner
Detach ==
  IF twin.exists /\ twin.ptr = "shared"
  THEN [twin EXCEPT !.ptr = "own", !.pre = _pre, !.post = _post, !.fresh = fresh,
                    !.linked = FALSE]
  ELSE [twin EXCEPT !.linked = FALSE]

\* a clear() that recreates the pre table only
clear_keeps_post ==
  /\ mode = "idle"
  /\ _pre' = EmptyTable
  /\ fresh' = TRUE
  /\ null' = FALSE
  /\ twin' = Detach
  /\ UNCHANGED <<conf, init, clean, _post, mode, stack, calls, lastVisit, done, rd, _wto>>

\* a clear() that empties the two tables in place
clear_in_place ==
  /\ mode = "idle"
  /\ _pre' = EmptyTable
  /\ _post' = EmptyTable
  /\ fresh' = TRUE
  /\ null' = FALSE
  /\ twin' = [twin EXCEPT !.linked = FALSE]
  /\ UNCHANGED <<conf, init, clean, mode, stack, calls, lastVisit, done, rd, _wto>>

\* lines 246-249: the two members point to new empty tables; _cfg and _wto
\* are left as they are
clear ==
  /\ mode = "idle"
  /\ _pre' = EmptyTable
  /\ _post' = EmptyTable
  /\ fresh' = TRUE
  /\ null' = FALSE
  /\ twin' = Detach
  /\ UNCHANGED <<conf, init, clean, mode, stack, calls, lastVisit, done, rd, _wto>>

(***************************************************************************)
(* WtoIterator: the iteration driver                                       *)
(***************************************************************************)
\* the visit of a vertex without the test for the entry point (lines 283-285)
WtoIterator_visit_vertex_no_entry ==
  /\ mode = "iterate"
  /\ AtComponent("vertex")
  /\ LET node == top.comps[top.i].n
         pre == JoinEdges(Bottom, G.preds[node], node, _post)
     IN  /\ _pre' = set(_pre, node, pre)
         /\ _post' = set(touchAll(_post, G.preds[node]), node, analyze_node(node, pre))
  /\ stack' = Mark(ReplaceTop(Advance), top.comps[top.i].n)
  /\ UNCHANGED <<conf, init, fresh, clean, mode, calls, lastVisit, done, rd, twin, _wto, null>>

\* the visit of a vertex that starts from the pre the table holds, for
\* every node
WtoIterator_visit_vertex_from_pre ==
  /\ mode = "iterate"
  /\ AtComponent("vertex")
  /\ LET node == top.comps[top.i].n
         pre == JoinEdges(get(_pre, node), G.preds[node], node, _post)
     IN  /\ _pre' = set(_pre, node, pre)
         /\ _post' = set(touchAll(_post, G.preds[node]), node, analyze_node(node, pre))
  /\ stack' = Mark(ReplaceTop(Advance), top.comps[top.i].n)
  /\ UNCHANGED <<conf, init, fresh, clean, mode, calls, lastVisit, done, rd, twin, _wto, null>>

WtoIterator_visit_vertex ==
  /\ mode = "iterate"
  /\ AtComponent("vertex")
  /\ LET node == top.comps[top.i].n
         pre0 == IF node = G.entry THEN get(_pre, node) ELSE Bottom
         pre == JoinEdges(pre0, G.preds[node], node, _post)
     IN  /\ _pre' = set(_pre, node, pre)
         /\ _post' = set(touchAll(_post, G.preds[node]), node, analyze_node(node, pre))
  /\ stack' = Mark(ReplaceTop(Advance), top.comps[top.i].n)
  /\ UNCHANGED <<conf, init, fresh, clean, mode, calls, lastVisit, done, rd, twin, _wto, null>>

\* lines 302-320: the value that enters the cycle, from the incoming edges
WtoIterator_visit_cycle ==
  /\ mode = "iterate"
  /\ AtComponent("cycle")
  /\ LET c == top.comps[top.i]
         pre == JoinEdges(Bottom, Incoming(c.n), c.n, _post)
     IN  /\ _post' = touchAll(_post, Incoming(c.n))
         /\ stack' = Append(ReplaceTop(Advance), CycleFrame(c, pre))
  /\ UNCHANGED <<conf, init, fresh, clean, _pre, mode, calls, lastVisit, done, rd, twin, _wto, null>>

\* the body of the cycle is visited in the first loop iteration only
WtoIterator_iterate_once ==
  /\ mode = "iterate"
  /\ stack # <<>>
  /\ top.t = "cycle"
  /\ top.at = "head"
  /\ _pre' = set(_pre, top.head, top.pre)
  /\ _post' = set(_post, top.head, analyze_node(top.head, top.pre))
  /\ stack' = IF top.nExt = 0 /\ top.nRef = 0
              THEN Append(Mark(ReplaceTop([top EXCEPT !.at = "tail", !.written = {}]),
                               top.head),
                          ListFrame(top.comps))
              ELSE Mark(ReplaceTop([top EXCEPT !.at = "tail", !.written = {}]), top.head)
  /\ UNCHANGED <<conf, init, fresh, clean, mode, calls, lastVisit, done, rd, twin, _wto, null>>

\* lines 322-327: the head is set from pre and the body is visited
WtoIterator_iterate ==
  /\ mode = "iterate"
  /\ stack # <<>>
  /\ top.t = "cycle"
  /\ top.at = "head"
  /\ _pre' = set(_pre, top.head, top.pre)
  /\ _post' = set(_post, top.head, analyze_node(top.head, top.pre))
  /\ stack' = Append(Mark(ReplaceTop([top EXCEPT !.at = "tail", !.written = {}]),
                          top.head),
                     ListFrame(top.comps))
  /\ UNCHANGED <<conf, init, fresh, clean, mode, calls, lastVisit, done, rd, twin, _wto, null>>

\* the end of a component list that is the body of a cycle
accept_end ==
  /\ mode \in {"iterate", "process"}
  /\ AtEnd
  /\ Len(stack) > 1
  /\ stack' = Pop
  /\ UNCHANGED <<conf, init, fresh, clean, _pre, _post, mode, calls, lastVisit, done, rd, twin, _wto, null>>

\* lines 329-362: the value that reaches the head after the body
NewPre(head, post) ==
  LET new_pre_in == JoinEdges(Bottom, Incoming(head), head, post)
      new_pre_back == JoinEdges(Bottom, BackEdges(head), head, post)
  IN  join_loop(new_pre_in, new_pre_back)

\* an increasing iteration with the fixpoint test inverted
IncreasingStep_inverted(head, kind, iteration, pre, new_pre) ==
  IF kind = "Increasing"
  THEN IF ~is_increasing_iterations_fixpoint(pre, new_pre)
       THEN [kind |-> "Decreasing", iteration |-> 1, pre |-> pre,
             ev |-> <<Event("is_increasing_iterations_fixpoint", iteration, TRUE)>>,
             ext |-> FALSE]
       ELSE [kind |-> kind, iteration |-> iteration,
             pre |-> extrapolate(head, iteration, pre, new_pre),
             ev |-> <<Event("is_increasing_iterations_fixpoint", iteration, FALSE),
                      Event("extrapolate", iteration, TRUE)>>,
             ext |-> TRUE]
  ELSE [kind |-> kind, iteration |-> iteration, pre |-> pre, ev |-> NoEvents,
        ext |-> FALSE]

\* lines 364-377: an increasing iteration
IncreasingStep(head, kind, iteration, pre, new_pre) ==
  IF kind = "Increasing"
  THEN IF is_increasing_iterations_fixpoint(pre, new_pre)
       THEN [kind |-> "Decreasing", iteration |-> 1, pre |-> pre,
             ev |-> <<Event("is_increasing_iterations_fixpoint", iteration, TRUE)>>,
             ext |-> FALSE]
       ELSE [kind |-> kind, iteration |-> iteration,
             pre |-> extrapolate(head, iteration, pre, new_pre),
             ev |-> <<Event("is_increasing_iterations_fixpoint", iteration, FALSE),
                      Event("extrapolate", iteration, TRUE)>>,
             ext |-> TRUE]
  ELSE [kind |-> kind, iteration |-> iteration, pre |-> pre, ev |-> NoEvents,
        ext |-> FALSE]

\* a decreasing iteration that leaves the iteration of the phase change to
\* the Increasing phase: the first refinement waits for the next body visit
DecreasingStep_deferred(head, kind, iteration, pre, new_pre) ==
  IF kind = "Decreasing" /\ iteration > 1
  THEN LET refined == refine(head, iteration, pre, new_pre)
           stop == is_decreasing_iterations_fixpoint(pre, refined)
       IN  [stop |-> stop, pre |-> refined,
            ev |-> <<Event("refine", iteration, TRUE),
                     Event("is_decreasing_iterations_fixpoint", iteration, stop)>>,
            ref |-> TRUE]
  ELSE [stop |-> FALSE, pre |-> pre, ev |-> NoEvents, ref |-> FALSE]

\* lines 379-390: a decreasing iteration
DecreasingStep(head, kind, iteration, pre, new_pre) ==
  IF kind = "Decreasing"
  THEN LET refined == refine(head, iteration, pre, new_pre)
           stop == is_decreasing_iterations_fixpoint(pre, refined)
       IN  [stop |-> stop, pre |-> refined,
            ev |-> <<Event("refine", iteration, TRUE),
                     Event("is_decreasing_iterations_fixpoint", iteration, stop)>>,
            ref |-> TRUE]
  ELSE [stop |-> FALSE, pre |-> pre, ev |-> NoEvents, ref |-> FALSE]

\* lines 329-391: the join at the head after the body, and the phase logic;
\* ++iteration (line 321) when the loop goes on.  nExt and nRef count the
\* calls of extrapolate and of refine made in the visit, on 32 bits as the
\* iteration counter.
WtoIterator_join ==
  /\ mode = "iterate"
  /\ stack # <<>>
  /\ top.t = "cycle"
  /\ top.at = "tail"
  /\ \E new_pre \in {NewPre(top.head, _post)} :
     \E inc \in {IncreasingStep(top.head, top.kind, top.iteration, top.pre, new_pre)} :
     \E dec \in {DecreasingStep(top.head, inc.kind, inc.iteration, inc.pre, new_pre)} :
     \E frame \in {[top EXCEPT !.pre = dec.pre, !.kind = inc.kind,
                                !.iteration = Increment(inc.iteration), !.at = "head",
                                !.ev = inc.ev \o dec.ev,
                                !.nExt = IF inc.ext THEN Increment(@) ELSE @,
                                !.nRef = IF dec.ref THEN Increment(@) ELSE @]} :
       /\ _post' = touchAll(_post, G.preds[top.head])
       /\ IF dec.stop
          THEN /\ _pre' = set(_pre, top.head, dec.pre)
               /\ stack' = Pop
               /\ lastVisit' = [head |-> top.head, kind |-> frame.kind,
                                ev |-> frame.ev, nExt |-> frame.nExt,
                                nRef |-> frame.nRef]
          ELSE /\ _pre' = _pre
               /\ stack' = ReplaceTop(frame)
               /\ lastVisit' = lastVisit
  /\ UNCHANGED <<conf, init, fresh, clean, mode, calls, done, rd, twin, _wto, null>>

\* run(), lines 240-241: the driver has walked the WTO, the processor starts
run_process ==
  /\ mode = "iterate"
  /\ AtEnd
  /\ Len(stack) = 1
  /\ mode' = "process"
  /\ stack' = <<ListFrame(_wto)>>
  /\ UNCHANGED <<conf, init, fresh, clean, _pre, _post, calls, lastVisit, done, rd, twin, _wto, null>>

(***************************************************************************)
(* WtoProcessor: the post-processor                                        *)
(***************************************************************************)
Sink(op, node, val) == [op |-> op, node |-> node, val |-> val]

\* a post-processor that stores node(head, pre(head)) as the post of a head
WtoProcessor_visit_cycle_repost ==
  /\ mode = "process"
  /\ AtComponent("cycle")
  /\ LET c == top.comps[top.i]
     IN  /\ calls' = calls \o <<Sink("process_pre", c.n, get(_pre, c.n)),
                                 Sink("process_post", c.n, get(_post, c.n))>>
         /\ _pre' = touch(_pre, c.n)
         /\ _post' = set(_post, c.n, analyze_node(c.n, get(_pre, c.n)))
         /\ stack' = Append(ReplaceTop(Advance), ListFrame(c.body))
  /\ UNCHANGED <<conf, init, fresh, clean, mode, lastVisit, done, rd, twin, _wto, null>>

\* the two sink calls in the other order
Process_swapped(node) ==
  <<Sink("process_post", node, get(_post, node)),
    Sink("process_pre", node, get(_pre, node))>>

Process(node) ==
  <<Sink("process_pre", node, get(_pre, node)),
    Sink("process_post", node, get(_post, node))>>

WtoProcessor_visit_vertex ==
  /\ mode = "process"
  /\ AtComponent("vertex")
  /\ LET node == top.comps[top.i].n
     IN  /\ calls' = calls \o Process(node)
         /\ _pre' = touch(_pre, node)
         /\ _post' = touch(_post, node)
  /\ stack' = ReplaceTop(Advance)
  /\ UNCHANGED <<conf, init, fresh, clean, mode, lastVisit, done, rd, twin, _wto, null>>

WtoProcessor_visit_cycle ==
  /\ mode = "process"
  /\ AtComponent("cycle")
  /\ LET c == top.comps[top.i]
     IN  /\ calls' = calls \o Process(c.n)
         /\ _pre' = touch(_pre, c.n)
         /\ _post' = touch(_post, c.n)
         /\ stack' = Append(ReplaceTop(Advance), ListFrame(c.body))
  /\ UNCHANGED <<conf, init, fresh, clean, mode, lastVisit, done, rd, twin, _wto, null>>

Snapshot ==
  [init |-> init, clean |-> clean, pre |-> _pre, post |-> _post, calls |-> calls,
   by |-> IF twin.run THEN "copy" ELSE "this"]

\* the members of the two iterators exchanged: who calls run() is the
\* iterator the driver works on
Xchg ==
  IF twin.ptr = "shared"
  THEN [pre |-> _pre, post |-> _post, fresh |-> fresh, null |-> FALSE, wto |-> twin.wto,
        twin |-> [twin EXCEPT !.wto = _wto]]
  ELSE [pre |-> twin.pre, post |-> twin.post, fresh |-> twin.fresh,
        null |-> twin.ptr = "null", wto |-> twin.wto,
        twin |-> [twin EXCEPT !.ptr = IF null THEN "null" ELSE "own",
                              !.pre = _pre, !.post = _post, !.fresh = fresh,
                              !.wto = _wto]]

\* run() returns: the tables it leaves are recorded
run_return ==
  /\ mode = "process"
  /\ AtEnd
  /\ Len(stack) = 1
  /\ mode' = "idle"
  /\ stack' = <<>>
  /\ done' = Append(done, Snapshot)
  /\ IF twin.run
     THEN /\ _pre' = Xchg.pre
          /\ _post' = Xchg.post
          /\ fresh' = Xchg.fresh
          /\ null' = Xchg.null
          /\ _wto' = Xchg.wto
          /\ twin' = [Xchg.twin EXCEPT !.run = FALSE]
     ELSE UNCHANGED <<_pre, _post, fresh, null, _wto, twin>>
  /\ UNCHANGED <<conf, init, clean, calls, lastVisit, rd>>

(***************************************************************************)
(* pre(node) and post(node), read by the client between runs               *)
(***************************************************************************)
\* rd: the number of reads made and the last of them
NoRead == [count |-> 0, tab |-> "", node |-> "", val |-> Bottom, miss |-> FALSE]

Read(tab, node, table) ==
  [count |-> rd.count + 1, tab |-> tab, node |-> node, val |-> get(table, node),
   miss |-> node \notin DOMAIN table]

pre(node) ==
  /\ mode = "idle"
  /\ IF null
     THEN Killed
     ELSE /\ rd.count + twin.reads < MaxReads
          /\ rd' = Read("pre", node, _pre)
          /\ _pre' = touch(_pre, node)
          /\ UNCHANGED <<conf, init, fresh, clean, _post, mode, stack, calls, lastVisit,
                         done, twin, _wto, null>>

post(node) ==
  /\ mode = "idle"
  /\ IF null
     THEN Killed
     ELSE /\ rd.count + twin.reads < MaxReads
          /\ rd' = Read("post", node, _post)
          /\ _post' = touch(_post, node)
          /\ UNCHANGED <<conf, init, fresh, clean, _pre, mode, stack, calls, lastVisit,
                         done, twin, _wto, null>>

(***************************************************************************)
(* A second iterator: copy and move construction and assignment, and the   *)
(* calls run(), clear(), pre(node), post(node) made on it                  *)
(***************************************************************************)
\* lines 101-103 and 108-110, defaulted: b(a) or b = a; the members of this
\* iterator are copied to the other
copy ==
  /\ mode = "idle"
  /\ twin.made < MaxCopies
  /\ ~(twin.exists /\ twin.ptr = (IF null THEN "null" ELSE "shared") /\ twin.wto = _wto)
  /\ twin' = [twin EXCEPT !.exists = TRUE, !.made = @ + 1,
                          !.ptr = IF null THEN "null" ELSE "shared",
                          !.linked = ~null, !.fresh = FALSE,
                          !.pre = EmptyTable, !.post = EmptyTable, !.wto = _wto]
  /\ UNCHANGED <<conf, init, fresh, clean, _pre, _post, mode, stack, calls, lastVisit,
                 done, rd, _wto, null>>

\* lines 108-110, defaulted: a = b; the members of the other iterator are
\* copied to this one, which drops the tables it pointed to
assign ==
  /\ mode = "idle"
  /\ twin.exists
  /\ twin.made < MaxCopies
  /\ ~(twin.ptr = "shared" /\ twin.wto = _wto)
  /\ ~(twin.ptr = "null" /\ null /\ twin.wto = _wto)
  /\ _wto' = twin.wto
  /\ CASE twin.ptr = "shared" ->
            /\ twin' = [twin EXCEPT !.made = @ + 1]
            /\ UNCHANGED <<_pre, _post, fresh, null>>
       [] twin.ptr = "own" ->
            /\ _pre' = twin.pre
            /\ _post' = twin.post
            /\ fresh' = twin.fresh
            /\ null' = FALSE
            /\ twin' = [twin EXCEPT !.ptr = "shared", !.linked = TRUE, !.fresh = FALSE,
                                    !.pre = EmptyTable, !.post = EmptyTable,
                                    !.made = @ + 1]
       [] twin.ptr = "null" ->
            /\ _pre' = EmptyTable
            /\ _post' = EmptyTable
            /\ fresh' = FALSE
            /\ null' = TRUE
            /\ twin' = [twin EXCEPT !.made = @ + 1]
  /\ UNCHANGED <<conf, init, clean, mode, stack, calls, lastVisit, done, rd>>

\* the _wto member of an iterator that was moved from: the moved-from state
\* of the WTO is not specified; it is as it was, or empty
MovedFrom(wto) == {wto, <<>>}

\* lines 105-106 and 112-114, defaulted: b(std::move(a)) or b = std::move(a);
\* the other iterator takes the members of this one, whose _pre and _post
\* are left null
move ==
  /\ mode = "idle"
  /\ twin.made < MaxCopies
  /\ ~(null /\ twin.exists /\ twin.ptr = "null" /\ twin.wto = _wto)
  /\ twin' = [twin EXCEPT !.exists = TRUE, !.made = @ + 1,
                          !.ptr = IF null THEN "null" ELSE "own",
                          !.linked = FALSE, !.fresh = fresh,
                          !.pre = _pre, !.post = _post, !.wto = _wto]
  /\ _pre' = EmptyTable
  /\ _post' = EmptyTable
  /\ fresh' = FALSE
  /\ null' = TRUE
  /\ _wto' \in MovedFrom(_wto)
  /\ UNCHANGED <<conf, init, clean, mode, stack, calls, lastVisit, done, rd>>

\* lines 112-114, defaulted: a = std::move(b); this iterator takes the
\* members of the other, whose _pre and _post are left null
move_assign ==
  /\ mode = "idle"
  /\ twin.exists
  /\ twin.made < MaxCopies
  /\ ~(null /\ twin.ptr = "null" /\ twin.wto = _wto)
  /\ _wto' = twin.wto
  /\ \E w \in MovedFrom(twin.wto) :
       CASE twin.ptr = "shared" ->
              /\ twin' = [twin EXCEPT !.ptr = "null", !.linked = FALSE, !.wto = w,
                                      !.made = @ + 1]
              /\ UNCHANGED <<_pre, _post, fresh, null>>
         [] twin.ptr = "own" ->
              /\ _pre' = twin.pre
              /\ _post' = twin.post
              /\ fresh' = twin.fresh
              /\ null' = FALSE
              /\ twin' = [twin EXCEPT !.ptr = "null", !.linked = FALSE, !.fresh = FALSE,
                                      !.pre = EmptyTable, !.post = EmptyTable, !.wto = w,
                                      !.made = @ + 1]
         [] twin.ptr = "null" ->
              /\ _pre' = EmptyTable
              /\ _post' = EmptyTable
              /\ fresh' = FALSE
              /\ null' = TRUE
              /\ twin' = [twin EXCEPT !.wto = w, !.made = @ + 1]
  /\ UNCHANGED <<conf, init, clean, mode, stack, calls, lastVisit, done, rd>>

\* the tables the two iterators point to
TwinPre == IF twin.ptr = "shared" \/ twin.run THEN _pre ELSE twin.pre

TwinPost == IF twin.ptr = "shared" \/ twin.run THEN _post ELSE twin.post

ThisPre == IF twin.ptr # "shared" /\ twin.run THEN twin.pre ELSE _pre

ThisPost == IF twin.ptr # "shared" /\ twin.run THEN twin.post ELSE _post

\* run(v) called on the other iterator
twin_run(v) ==
  /\ mode = "idle"
  /\ twin.exists
  /\ IF twin.ptr = "null"
     THEN Killed
     ELSE /\ Len(done) < MaxRuns
          /\ init' = v
          /\ clean' = Xchg.fresh
          /\ fresh' = FALSE
          /\ _pre' = set(Xchg.pre, G.entry, v)
          /\ _post' = Xchg.post
          /\ null' = Xchg.null
          /\ _wto' = Xchg.wto
          /\ twin' = [Xchg.twin EXCEPT !.run = TRUE]
          /\ mode' = "iterate"
          /\ stack' = <<ListFrame(Xchg.wto)>>
          /\ calls' = <<>>
          /\ lastVisit' = NoVisit
          /\ UNCHANGED <<conf, done, rd>>

\* clear() called on the other iterator
twin_clear ==
  /\ mode = "idle"
  /\ twin.exists
  /\ twin' = [twin EXCEPT !.ptr = "own", !.pre = EmptyTable, !.post = EmptyTable,
                          !.linked = FALSE, !.fresh = TRUE]
  /\ UNCHANGED <<conf, init, fresh, clean, _pre, _post, mode, stack, calls, lastVisit,
                 done, rd, _wto, null>>

\* pre(node) called on the other iterator
twin_pre(node) ==
  /\ mode = "idle"
  /\ twin.exists
  /\ CASE twin.ptr = "null" -> Killed
       [] twin.ptr = "shared" ->
            /\ rd.count + twin.reads < MaxReads
            /\ _pre' = touch(_pre, node)
            /\ twin' = [twin EXCEPT !.reads = @ + 1, !.tab = "pre", !.node = node,
                                    !.val = get(_pre, node)]
            /\ UNCHANGED <<conf, init, fresh, clean, _post, mode, stack, calls,
                           lastVisit, done, rd, _wto, null>>
       [] twin.ptr = "own" ->
            /\ rd.count + twin.reads < MaxReads
            /\ twin' = [twin EXCEPT !.reads = @ + 1, !.tab = "pre", !.node = node,
                                    !.val = get(twin.pre, node),
                                    !.pre = touch(twin.pre, node)]
            /\ UNCHANGED <<conf, init, fresh, clean, _pre, _post, mode, stack, calls,
                           lastVisit, done, rd, _wto, null>>

\* post(node) called on the other iterator
twin_post(node) ==
  /\ mode = "idle"
  /\ twin.exists
  /\ CASE twin.ptr = "null" -> Killed
       [] twin.ptr = "shared" ->
            /\ rd.count + twin.reads < MaxReads
            /\ _post' = touch(_post, node)
            /\ twin' = [twin EXCEPT !.reads = @ + 1, !.tab = "post", !.node = node,
                                    !.val = get(_post, node)]
            /\ UNCHANGED <<conf, init, fresh, clean, _pre, mode, stack, calls,
                           lastVisit, done, rd, _wto, null>>
       [] twin.ptr = "own" ->
            /\ rd.count + twin.reads < MaxReads
            /\ twin' = [twin EXCEPT !.reads = @ + 1, !.tab = "post", !.node = node,
                                    !.val = get(twin.post, node),
                                    !.post = touch(twin.post, node)]
            /\ UNCHANGED <<conf, init, fresh, clean, _pre, _post, mode, stack, calls,
                           lastVisit, done, rd, _wto, null>>

(***************************************************************************)
(* Specifications                                                          *)
(***************************************************************************)
Start ==
  /\ init = Bottom
  /\ fresh = TRUE
  /\ clean = TRUE
  /\ _pre = EmptyTable
  /\ _post = EmptyTable
  /\ mode = "idle"
  /\ stack = <<>>
  /\ calls = <<>>
  /\ lastVisit = NoVisit
  /\ done = <<>>
  /\ rd = NoRead
  /\ twin = NoTwin
  /\ _wto = G.wto
  /\ null = FALSE

Init == conf \in Confs /\ Start

Step ==
  \/ WtoIterator_visit_vertex
  \/ WtoIterator_visit_cycle
  \/ WtoIterator_iterate
  \/ WtoIterator_join
  \/ accept_end
  \/ run_process
  \/ WtoProcessor_visit_vertex
  \/ WtoProcessor_visit_cycle
  \/ run_return

Next ==
  \/ \E v \in Inits : run(v)
  \/ clear
  \/ Step

Spec == Init /\ [][Next]_vars

\* the client reads pre(n) and post(n) between the calls of run() and clear()
ReadGraphs == {"dead"}

ReadConfs ==
  {Conf(p, d) : p \in UNION {Programs(g) : g \in ReadGraphs},
                d \in {[widen |-> "widen", hooks |-> "default"]}}

InitRead == conf \in ReadConfs /\ Start

NextRead ==
  \/ \E v \in Inits : run(v)
  \/ clear
  \/ Step
  \/ \E n \in G.nodes : pre(n)
  \/ \E n \in G.nodes : post(n)

SpecRead == InitRead /\ [][NextRead]_vars

\* the client copies and moves the iterator, and calls run(), clear() and the
\* readers on the two iterators
CopyGraphs == {"selfh"}

CopyConfs ==
  {Conf(p, d) : p \in {q \in UNION {Programs(g) : g \in CopyGraphs} :
                         q.nf["H"] = "id" /\ q.ef[<<"H", "H">>] = "le2"},
                d \in {[widen |-> "widen", hooks |-> "default"]}}

InitCopy == conf \in CopyConfs /\ Start

\* the runs start from one value and the reads are made at the head
CopyInits == {Mk(0, 0)}

CopyNodes == {"H"}

NextCopy ==
  \/ \E v \in CopyInits : run(v)
  \/ clear
  \/ Step
  \/ copy
  \/ assign
  \/ move
  \/ move_assign
  \/ \E v \in CopyInits : twin_run(v)
  \/ twin_clear
  \/ \E n \in CopyNodes : twin_pre(n)
  \/ \E n \in CopyNodes : twin_post(n)

SpecCopy == InitCopy /\ [][NextCopy]_vars

\* the loop with a guard: A -> B -> C -> B, C -> D, x := x + 1 at C, the
\* test x <= 9 on the edge B -> C; the edge C -> D is the identity or
\* carries the exit test x >= 10
GuardConfs ==
  {[g |-> "loop",
    nf |-> [A |-> "id", B |-> "id", C |-> "inc", D |-> "id"],
    ef |-> [e \in Edges("loop") |->
              CASE e = <<"B", "C">> -> "le9"
                [] e = <<"C", "D">> -> exit
                [] OTHER -> "id"],
    widen |-> "widen", hooks |-> "default"] : exit \in {"id", "ge10"}}

InitGuard == conf \in GuardConfs /\ Start

SpecGuard == InitGuard /\ [][Next]_vars

\* A cycle visit whose widening is the identity.  On A (H1 B) (H2 C) with
\* x := x + 1 at B and a test x <= 1 or x <= 2 on the edge H1 -> B,
\* run([0,0]) joins in iteration 1 (pre(H1) = [0,1]) and leaves pre as it is
\* from iteration 2 on: every later loop iteration sets the same values
\* (pre(B) = [0,1], post(B) = [1,2]) and ends with the same failed test, only
\* the 32-bit counter moves.  The run is followed from the head of one of
\* the last three iterations before the counter wraps.
WrapConfs ==
  {[g |-> "sib",
    nf |-> [A |-> "id", H1 |-> "id", B |-> "inc", H2 |-> "id", C |-> "id"],
    ef |-> [e \in Edges("sib") |->
              CASE e = <<"H1", "B">> -> guard
                [] e = <<"B", "H2">> -> exit
                [] e = <<"H2", "C">> -> inner
                [] OTHER -> "id"],
    widen |-> "before", hooks |-> "default"] :
     guard \in {"le1", "le2"}, exit \in {"id", "ge2"}, inner \in {"id", "le2"}}

\* the iterations the run is followed from: 2^32 - 3, 2^32 - 2, 2^32 - 1
WrapStarts == {-3, -2, -1}

\* run([0,0]) at the head of loop iteration k of the visit of H1, k >= 3:
\* k - 1 iterations were made, each of them called extrapolate
WrapState(k) ==
  /\ init = Mk(0, 0)
  /\ fresh = FALSE
  /\ clean = TRUE
  /\ _pre = [A |-> Mk(0, 0), H1 |-> Mk(0, 1), B |-> Mk(0, 1)]
  /\ _post = [A |-> Mk(0, 0), H1 |-> Mk(0, 1), B |-> Mk(1, 2)]
  /\ mode = "iterate"
  /\ stack = <<[ListFrame(G.wto) EXCEPT !.i = 3, !.written = {"A", "H1", "B"}],
               [CycleFrame(G.wto[2], Mk(0, 0)) EXCEPT
                  !.pre = Mk(0, 1), !.iteration = k,
                  !.ev = <<Event("is_increasing_iterations_fixpoint", k - 1, FALSE),
                           Event("extrapolate", k - 1, TRUE)>>,
                  !.nExt = k - 1, !.written = {"H1", "B"}]>>
  /\ calls = <<>>
  /\ lastVisit = NoVisit
  /\ done = <<>>
  /\ rd = NoRead
  /\ twin = NoTwin
  /\ _wto = G.wto
  /\ null = FALSE

InitWrap == conf \in WrapConfs /\ \E k \in WrapStarts : WrapState(k)

\* run() is one blocking call: once it has started, its next step is taken
NextWrap == Step

SpecWrap == InitWrap /\ [][NextWrap]_vars /\ WF_vars(Step)

(***************************************************************************)
(* Properties                                                              *)
(***************************************************************************)
Returned == DOMAIN done

LawfulDefault == conf.hooks = "default" /\ conf.widen \in {"widen", "join"}

\* C1: soundness of pre.  After run() has returned, at every node but the
\* entry the join over the predecessors p of edge(p, n, post(p)) is below
\* pre(n) (monotone transfer functions, interval lattice, default hooks).
C1_SoundnessOfPre ==
  LawfulDefault =>
    \A i \in Returned : \A n \in G.nodes \ {G.entry} :
      leq(JoinEdges(Bottom, G.preds[n], n, done[i].post), get(done[i].pre, n))

\* C2: consistency of post.  After run() has returned, post(n) is
\* analyze_node(n, pre(n)) at every node of the WTO, vertex or cycle head.
C2_ConsistencyOfPost ==
  \A i \in Returned : \A n \in WtoNodeSet :
    get(done[i].post, n) = analyze_node(n, get(done[i].pre, n))

EntryIsPlain == G.entry \notin Heads /\ G.preds[G.entry] = <<>>

DriverNotStarted == mode = "iterate" /\ Len(stack) = 1 /\ top.t = "list" /\ top.i = 1

\* C3: entry seed.  run(init) stores init as pre(entry) before the driver
\* starts; when the entry is a plain vertex without predecessors, run()
\* returns with pre(entry) = init and post(entry) = analyze_node(entry, init).
C3_EntrySeed ==
  /\ DriverNotStarted => G.entry \in DOMAIN _pre /\ _pre[G.entry] = init
  /\ EntryIsPlain =>
       \A i \in Returned :
         /\ get(done[i].pre, G.entry) = done[i].init
         /\ get(done[i].post, G.entry) = analyze_node(G.entry, done[i].init)

\* a run from [0, 2] has returned on a graph whose entry is a plain vertex
\* that increments
C3_Witness ==
  /\ EntryIsPlain
  /\ conf.nf[G.entry] = "inc"
  /\ \E i \in Returned : done[i].init = Mk(0, 2) /\ done[i].post[G.entry] = Mk(1, 3)

\* C4: entry inside a cycle.  When the entry is a cycle head, the value
\* given to run() is part of the final pre(entry): init is below pre(entry).
C4_EntryCycleKeepsInit ==
  G.entry \in Heads =>
    \A i \in Returned : leq(done[i].init, get(done[i].pre, G.entry))

JoinEnabled == mode = "iterate" /\ stack # <<>> /\ top.t = "cycle" /\ top.at = "tail"

HasOp(ev, op) == \E k \in DOMAIN ev : ev[k].op = op

LastIs(ev, op, ok) == ev # <<>> /\ ev[Len(ev)].op = op /\ ev[Len(ev)].ok = ok

\* what one step of the cycle loop does to the visit on top of the stack
PhaseStep ==
  LET ends == Len(stack') < Len(stack)
      r == IF ends THEN lastVisit' ELSE stack'[Len(stack)]
      new_pre == NewPre(top.head, _post)
      fix == is_increasing_iterations_fixpoint(top.pre, new_pre)
      iteration == IF top.kind = "Increasing" THEN 1 ELSE top.iteration
      stop == is_decreasing_iterations_fixpoint(
                top.pre, refine(top.head, iteration, top.pre, new_pre))
  IN  /\ top.kind = "Increasing" => (r.kind = "Decreasing" <=> fix)
      /\ top.kind = "Increasing" /\ ~fix => LastIs(r.ev, "extrapolate", TRUE)
      /\ top.kind = "Decreasing" => r.kind = "Decreasing"
      /\ HasOp(r.ev, "refine") <=> r.kind = "Decreasing"
      /\ HasOp(r.ev, "refine") => ~HasOp(r.ev, "extrapolate")
      /\ ends <=> (r.kind = "Decreasing" /\ stop)
      /\ ends => /\ r.nRef >= 1
                 /\ LastIs(r.ev, "is_decreasing_iterations_fixpoint", TRUE)

\* a cycle visit starts in the Increasing phase, with no hook called
PhaseStart ==
  (Len(stack') > Len(stack) /\ stack'[Len(stack')].t = "cycle") =>
    LET f == stack'[Len(stack')]
    IN  f.kind = "Increasing" /\ f.nExt = 0 /\ f.nRef = 0

\* the visits below the top of the stack keep their phase
PhaseKept ==
  \A k \in DOMAIN stack :
    (k \in DOMAIN stack' /\ stack[k].t = "cycle" /\ stack'[k].t = "cycle"
       /\ stack[k].kind = "Decreasing") => stack'[k].kind = "Decreasing"

\* C5: phase state machine of a cycle visit.  The phase starts as
\* Increasing, becomes Decreasing exactly when
\* is_increasing_iterations_fixpoint answers true, never goes back to
\* Increasing (no extrapolate after a refine), and the visit ends only in
\* the Decreasing phase, when is_decreasing_iterations_fixpoint answers
\* true: refine has been called at least once in a visit that ends.
C5_PhaseMachine ==
  [][/\ PhaseStart
     /\ PhaseKept
     /\ JoinEnabled => PhaseStep]_vars

\* a cycle visit has ended after two extrapolations and two refinements
C5_Witness ==
  /\ lastVisit.kind = "Decreasing"
  /\ lastVisit.nExt >= 2
  /\ lastVisit.nRef >= 2

Running == mode \in {"iterate", "process"}

\* a loop iteration of the stuck visit, before the counter wraps, leaves the
\* state it started from with the counter advanced by one: the iterations 3
\* to 2^32 - 1 of the visit differ by their counter only
Repeats ==
  (/\ stack # <<>>
   /\ top.t = "cycle" /\ top.at = "head"
   /\ top.kind = "Increasing" /\ top.iteration < 0) => WrapState(top.iteration)

IdentityWiden == conf.hooks = "default" /\ conf.widen = "before"

InVisit(h) == stack # <<>> /\ top.t = "cycle" /\ top.head = h

WrapHeads == {"H1", "H2"}

\* C6: termination on a finite-height domain.  With the default hooks and a
\* widen that is the identity, every run() that has started returns, and
\* every cycle visit ends after finitely many loop iterations, its
\* Increasing phase having reached the fixpoint (the visit ends in the
\* Decreasing phase).
C6_TerminationIdentityWiden ==
  /\ (Running /\ IdentityWiden) ~> (mode = "idle")
  /\ \A h \in WrapHeads :
       (InVisit(h) /\ IdentityWiden) ~>
         (lastVisit.head = h /\ lastVisit.kind = "Decreasing")

\* a run with the identity as widening has returned: the visit of H1 that
\* was stuck at pre(H1) = [0,1] ended with pre(H1) = [0,3]
C6_Witness ==
  /\ IdentityWiden
  /\ mode = "idle"
  /\ Len(done) = 1
  /\ get(done[1].pre, "H1") = Mk(0, 3)
  /\ lastVisit.head = "H2" /\ lastVisit.kind = "Decreasing"

MonotoneRuns ==
  \A i, j \in Returned :
    (done[i].clean /\ done[j].clean /\ leq(done[i].init, done[j].init)) =>
      \A n \in G.nodes : leq(get(done[i].pre, n), get(done[j].pre, n))

\* C7 (as stated): monotonicity in the initial value.  With the default
\* hooks, two runs on a fresh iterator from init1 below init2 return with
\* pre1(n) below pre2(n) at every node.
C7_Monotonicity == LawfulDefault => MonotoneRuns

\* C7 (amended): the same when the domain's widen is its join, widen(a, b) =
\* a join b, so that no iteration extrapolates.
C7_MonotonicityJoinWiden ==
  (conf.hooks = "default" /\ conf.widen = "join") => MonotoneRuns

\* two runs of a cycle with the join as widening, from [0,0] and from
\* [0,2], that return different values at the head
C7_Witness ==
  /\ conf.hooks = "default" /\ conf.widen = "join"
  /\ Heads # {}
  /\ \E i, j \in Returned :
       /\ done[i].clean /\ done[j].clean
       /\ done[i].init = Mk(0, 0) /\ done[j].init = Mk(0, 2)
       /\ \E h \in Heads : get(done[i].pre, h) # get(done[j].pre, h)

SameTables(a, b) ==
  \A n \in G.nodes : get(a.pre, n) = get(b.pre, n) /\ get(a.post, n) = get(b.post, n)

\* C8: idempotence across clear.  run(init); clear(); run(init), the first
\* run on a new or cleared iterator, leaves pre and post tables that agree
\* at every node with the tables the first run left.
C8_Idempotence ==
  \A i, j \in Returned :
    (j = i + 1 /\ done[i].clean /\ done[j].clean /\ done[i].init = done[j].init) =>
      SameTables(done[i], done[j])

\* run([0,2]); clear(); run([0,2]) has returned on a graph with a cycle that
\* was widened
C8_Witness ==
  /\ Len(done) >= 2
  /\ done[1].clean /\ done[2].clean
  /\ done[1].init = Mk(0, 2) /\ done[2].init = Mk(0, 2)
  /\ \E h \in Heads : get(done[2].pre, h).ub = PosInf

\* the sink calls of a run over tables pre, post: the nodes of the WTO in
\* pre-order, each with process_pre then process_post
RECURSIVE Expected(_, _, _)
Expected(ns, tpre, tpost) ==
  IF ns = <<>> THEN <<>>
  ELSE <<Sink("process_pre", Head(ns), get(tpre, Head(ns))),
         Sink("process_post", Head(ns), get(tpost, Head(ns)))>>
       \o Expected(Tail(ns), tpre, tpost)

IsPrefix(a, b) == Len(a) <= Len(b) /\ SubSeq(b, 1, Len(a)) = a

\* C9: post-processor ordering.  After the driver's last write every node
\* of the WTO gets process_pre then process_post with the final pre(n) and
\* post(n), in WTO pre-order, no other node is processed (so the order of
\* the calls is the same in every run), and two runs on a new or cleared
\* iterator from the same init make the same calls with the same values.
C9_ProcessorOrder ==
  /\ mode = "process" => IsPrefix(calls, Expected(WtoNodes(G.wto), _pre, _post))
  /\ \A i \in Returned :
       done[i].calls = Expected(WtoNodes(G.wto), done[i].pre, done[i].post)
  /\ \A i, j \in Returned :
       (done[i].clean /\ done[j].clean /\ done[i].init = done[j].init) =>
         done[i].calls = done[j].calls

\* a run over the nested cycles has returned; the inner head was processed
\* before its body
C9_Witness ==
  /\ conf.g = "nest"
  /\ Len(done) >= 2
  /\ done[2].clean /\ done[1].init = done[2].init
  /\ done[2].calls[5].node = "H2" /\ done[2].calls[7].node = "B1"
  /\ done[2].calls[7].val # done[2].calls[8].val

Unreachable == G.nodes \ WtoNodeSet

\* C10: unvisited nodes read as bottom.  A node that is not in the WTO has
\* pre = post = bottom after any sequence of run() and clear(); a read miss
\* returns bottom, and the entry it inserts changes no value read later.
C10_UnvisitedBottom ==
  [][/\ \A x \in Unreachable : get(_pre', x) = Bottom /\ get(_post', x) = Bottom
     /\ rd' # rd =>
          /\ rd'.miss => rd'.val = Bottom
          /\ rd'.node \in Unreachable => rd'.val = Bottom
          /\ \A n \in G.nodes : get(_pre', n) = get(_pre, n)
                                  /\ get(_post', n) = get(_post, n)]_vars

\* after a run, post(X) of the unreachable node X was read: a miss that
\* inserted the entry; then pre(X) was read
C10_Witness ==
  /\ done # <<>>
  /\ rd.count = 2 /\ rd.tab = "pre" /\ rd.node = "X" /\ rd.miss
  /\ "X" \in DOMAIN _post /\ "X" \in DOMAIN _pre
  /\ _pre["B"] # Bottom

ReadsBottom(tpre, tpost) ==
  \A n \in G.nodes : get(tpre, n) = Bottom /\ get(tpost, n) = Bottom

SameView(a, b) == \A n \in G.nodes : get(a, n) = get(b, n)

\* C11: clear() and table ownership.  clear() keeps the graph and the WTO
\* and makes its caller read bottom at every node, until its next run; two
\* iterators of which one is a copy of the other share the two tables: what
\* run() writes on one is what the other reads, until one of the two calls
\* clear(); clear() changes nothing the other iterator reads.
C11_ClearAndCopies ==
  [][/\ conf' = conf
     /\ clear => /\ _wto' = _wto /\ twin'.wto = twin.wto
                 /\ ReadsBottom(_pre', _post')
                 /\ SameView(TwinPre', TwinPre) /\ SameView(TwinPost', TwinPost)
     /\ twin_clear => /\ _wto' = _wto /\ twin'.wto = twin.wto
                      /\ ReadsBottom(TwinPre', TwinPost')
                      /\ _pre' = _pre /\ _post' = _post
     /\ (fresh' /\ ~twin'.run) => ReadsBottom(ThisPre', ThisPost')
     /\ (twin'.fresh /\ ~twin'.run) => ReadsBottom(TwinPre', TwinPost')
     /\ (copy \/ assign) =>
          (~null' => SameView(TwinPre', ThisPre') /\ SameView(TwinPost', ThisPost'))
     /\ (twin.linked /\ twin'.linked) =>
          /\ twin'.ptr = "shared"
          /\ twin'.reads = twin.reads + 1 =>
               twin'.val = get(IF twin'.tab = "pre" THEN ThisPre ELSE ThisPost,
                               twin'.node)
          /\ (mode = "process" /\ mode' = "idle") =>
               /\ SameView(ThisPre', done'[Len(done')].pre)
               /\ SameView(TwinPre', done'[Len(done')].pre)
               /\ SameView(ThisPost', done'[Len(done')].post)
               /\ SameView(TwinPost', done'[Len(done')].post)]_vars

\* a copy was made before the first run and the run was made on the copy;
\* this iterator then called clear() and reads bottom, and the copy still
\* holds, and has read, the invariants of the run
C11_Witness ==
  /\ twin.exists /\ ~twin.fresh
  /\ Len(done) = 1 /\ done[1].by = "copy"
  /\ fresh /\ ~null
  /\ twin.ptr = "own"
  /\ get(twin.pre, "H") # Bottom /\ get(twin.post, "H") # Bottom
  /\ twin.reads >= 1 /\ twin.val # Bottom

\* the run in progress, or the returned run i, is the scenario's: init =
\* [0,0] on a new or cleared iterator
GuardRun == init = Mk(0, 0) /\ clean

GuardDone(i) == done[i].init = Mk(0, 0) /\ done[i].clean

\* the Increasing phase at the head B ends with pre(B) = [0, +oo]
GuardWidened ==
  (GuardRun /\ JoinEnabled /\ top.head = "B" /\ top.kind = "Increasing"
     /\ is_increasing_iterations_fixpoint(top.pre, NewPre("B", _post)))
    => top.pre = Mk(0, PosInf)

\* C12 (as stated): loop-with-guard scenario.  The Increasing phase at the
\* head B reaches pre(B) = [0, +oo] and run([0,0]) ends with pre(B) = [0, 10]
\* and pre(D) = [10, 10], the edge C -> D being the identity.
C12_LoopWithGuard ==
  [][/\ GuardWidened
     /\ \A i \in DOMAIN done' :
          (GuardDone(i)' /\ conf.ef[<<"C", "D">>] = "id") =>
            /\ get(done'[i].pre, "B") = Mk(0, 10)
            /\ get(done'[i].pre, "D") = Mk(10, 10)]_vars

\* C12 (amended): the Increasing phase at the head B reaches pre(B) =
\* [0, +oo] and run([0,0]) ends with pre(B) = [0, 10]; pre(D) = [1, 10] when
\* the edge C -> D is the identity, and pre(D) = [10, 10] when it carries
\* the exit test x >= 10.
C12_LoopWithGuardExit ==
  [][/\ GuardWidened
     /\ \A i \in DOMAIN done' :
          GuardDone(i)' =>
            /\ get(done'[i].pre, "B") = Mk(0, 10)
            /\ get(done'[i].pre, "D") =
                 (IF conf.ef[<<"C", "D">>] = "id" THEN Mk(1, 10) ELSE Mk(10, 10))]_vars

\* run([0,0]) has returned on the loop whose edge C -> D is the identity,
\* after two extrapolations and two refinements at B
C12_Witness ==
  /\ conf.ef[<<"C", "D">>] = "id"
  /\ Len(done) >= 1 /\ done[1].init = Mk(0, 0)
  /\ lastVisit.head = "B" /\ lastVisit.nExt = 2 /\ lastVisit.nRef = 2
  /\ get(done[1].pre, "B") = Mk(0, 10)
  /\ get(done[1].post, "C") = Mk(1, 10)

\* p is inside the cycle whose head is h: p is h or h encloses p
InCycle(p, h) == p = h \/ h \in Range(nesting(p))

\* the predecessors p of the outer head h1 and of the inner head h2 that lie
\* in the body of the inner cycle
InnerBody(h2) == {p \in WtoNodeSet : h2 \in Range(nesting(p))}

NestedHeads == {hh \in Heads \X Heads : hh[1] \in Range(nesting(hh[2]))}

\* C13 (as stated): nested-loop classification.  A predecessor in the body
\* of the inner cycle is a back-edge predecessor of the inner head H2 and
\* an incoming predecessor of the outer head H1.
C13_NestedClassification ==
  \A hh \in NestedHeads : \A p \in InnerBody(hh[2]) :
    /\ p \in Range(G.preds[hh[2]]) => p \in Range(BackEdges(hh[2]))
    /\ p \in Range(G.preds[hh[1]]) => p \in Range(Incoming(hh[1]))

\* C13 (amended): a predecessor in the body of the inner cycle is a
\* back-edge predecessor of the inner head H2 and of the outer head H1; the
\* outer head H1 is an incoming predecessor of H2.
C13_NestedBackEdges ==
  \A hh \in NestedHeads :
    /\ \A p \in InnerBody(hh[2]) :
         /\ p \in Range(G.preds[hh[2]]) =>
              p \in Range(BackEdges(hh[2])) /\ p \notin Range(Incoming(hh[2]))
         /\ p \in Range(G.preds[hh[1]]) =>
              p \in Range(BackEdges(hh[1])) /\ p \notin Range(Incoming(hh[1]))
    /\ hh[1] \in Range(G.preds[hh[2]]) => hh[1] \in Range(Incoming(hh[2]))

\* a run has returned on A (H1 (H2 B)) with B -> H2 and B -> H1: the visit
\* of H1 ended last, after the visits of H2 in its body
C13_Witness ==
  /\ conf.g = "deep"
  /\ "B" \in InnerBody("H2")
  /\ "B" \in Range(G.preds["H1"]) /\ "B" \in Range(G.preds["H2"])
  /\ done # <<>>
  /\ lastVisit.head = "H1"

\* C14: back-edge classification matches cycle membership.  A predecessor
\* p of a head h is a back-edge predecessor iff p is inside the cycle of h
\* and an incoming one iff it is outside, for a predecessor in the body of
\* an earlier sibling cycle and for a self-loop h -> h too.
C14_ClassificationIsMembership ==
  \A h \in Heads : \A p \in Range(G.preds[h]) :
    /\ p \in Range(BackEdges(h)) <=> InCycle(p, h)
    /\ p \in Range(Incoming(h)) <=> ~InCycle(p, h)

\* the loop iteration of the top cycle visit in which the Increasing phase
\* reaches its fixpoint
PhaseChange ==
  /\ JoinEnabled
  /\ top.kind = "Increasing"
  /\ is_increasing_iterations_fixpoint(top.pre, NewPre(top.head, _post))

\* the visit on top of the stack after the step: the frame, or the record of
\* the visit when it has ended
VisitAfter == IF Len(stack') < Len(stack) THEN lastVisit' ELSE stack'[Len(stack)]

\* C15 (as stated): body re-visit at the phase change.  In the loop
\* iteration where is_increasing_iterations_fixpoint answers true, refine is
\* not called: the body is visited again from the pre stored at the head,
\* and the first call to refine comes with the next loop iteration.
C15_RefineAfterRevisit ==
  [][PhaseChange =>
       /\ ~HasOp(VisitAfter.ev, "refine")
       /\ Len(stack') = Len(stack)
       /\ stack'[Len(stack)].at = "head"
       /\ stack'[Len(stack)].pre = top.pre]_vars

\* C15 (amended): in the loop iteration where
\* is_increasing_iterations_fixpoint answers true, refine is called at once,
\* with iteration 1, on the pre and the new_pre of that iteration; the visit
\* ends there when is_decreasing_iterations_fixpoint answers true, and the
\* body is visited again, from the refined pre, only when it answers false.
C15_RefineAtPhaseChange ==
  [][PhaseChange =>
       LET new_pre == NewPre(top.head, _post)
           refined == refine(top.head, 1, top.pre, new_pre)
           stop == is_decreasing_iterations_fixpoint(top.pre, refined)
       IN  /\ VisitAfter.ev =
                <<Event("is_increasing_iterations_fixpoint", top.iteration, TRUE),
                  Event("refine", 1, TRUE),
                  Event("is_decreasing_iterations_fixpoint", 1, stop)>>
           /\ VisitAfter.nRef = 1
           /\ stop => /\ Len(stack') < Len(stack)
                      /\ get(_pre', top.head) = refined
           /\ ~stop => /\ Len(stack') = Len(stack)
                       /\ stack'[Len(stack)].at = "head"
                       /\ stack'[Len(stack)].pre = refined]_vars

\* the Increasing phase of a cycle visit has reached its fixpoint after two
\* extrapolations; the refinement of that iteration is not a fixpoint and
\* the body is about to be visited again
C15_Witness ==
  /\ mode = "iterate" /\ stack # <<>>
  /\ top.t = "cycle" /\ top.at = "head"
  /\ top.nExt = 2 /\ top.nRef = 1
  /\ top.ev = <<Event("is_increasing_iterations_fixpoint", 3, TRUE),
                Event("refine", 1, TRUE),
                Event("is_decreasing_iterations_fixpoint", 1, FALSE)>>

\* the iteration carried by the call of op made in the loop iteration ev
IterationOf(ev, op) == (CHOOSE k \in DOMAIN ev : ev[k].op = op)

\* C16: iteration indices seen by the hooks.  In a cycle visit the calls of
\* extrapolate carry iteration 1, 2, 3, ...: the call that follows nExt
\* calls carries nExt + 1, which is never 0; the calls of refine carry 1, 2,
\* 3, ... in the same way, counted again from 1 at the phase change; the
\* default extrapolate is join_iter on the first Increasing iteration of the
\* visit and widen on every later one.
C16_IterationIndices ==
  [][JoinEnabled =>
       LET r == VisitAfter
           new_pre == NewPre(top.head, _post)
       IN  /\ HasOp(r.ev, "extrapolate") =>
                /\ r.ev[IterationOf(r.ev, "extrapolate")].iteration = r.nExt
                /\ r.ev[IterationOf(r.ev, "extrapolate")].iteration # 0
                /\ r.nExt = Increment(top.nExt)
                /\ r.pre = IF top.nExt = 0 THEN join_iter(top.pre, new_pre)
                           ELSE widen(conf.widen, top.pre, new_pre)
           /\ HasOp(r.ev, "refine") =>
                /\ r.ev[IterationOf(r.ev, "refine")].iteration = r.nRef
                /\ r.ev[IterationOf(r.ev, "refine")].iteration # 0
                /\ r.nRef = Increment(top.nRef)
                /\ top.kind = "Increasing" => r.nRef = 1]_vars

\* C17: fresh post values at the loop join.  When the driver computes
\* new_in and new_back after the body visit of a loop iteration, every
\* back-edge predecessor inside the cycle had its post set during that
\* iteration, and the computation itself changes no post value.
C17_FreshPostAtJoin ==
  [][JoinEnabled =>
       /\ \A p \in Range(BackEdges(top.head)) :
            InCycle(p, top.head) => p \in top.written
       /\ top.head \in top.written
       /\ \A n \in G.nodes : get(_post', n) = get(_post, n)]_vars

\* the join at the inner head H2 of A (H1 (H2 B1 B2)) in its third loop
\* iteration, during the second loop iteration of H1: both back-edge
\* predecessors were written again in this iteration
C17_Witness ==
  /\ conf.g = "nest"
  /\ JoinEnabled
  /\ top.head = "H2"
  /\ top.nExt = 2
  /\ top.written = {"H2", "B1", "B2"}
  /\ Len(stack) >= 3 /\ stack[2].t = "cycle" /\ stack[2].head = "H1"
  /\ stack[2].nExt >= 1

\* the join of edge(p, n, post(p)) over the predecessors p of n
RECURSIVE JoinOver(_, _, _)
JoinOver(ps, n, tpost) ==
  IF ps = {} THEN Bottom
  ELSE LET p == CHOOSE x \in ps : TRUE
       IN  join(EdgeFn(conf.ef[<<p, n>>], get(tpost, p)), JoinOver(ps \ {p}, n, tpost))

\* C18: exactness at plain vertices.  Once run() has returned, pre(n) of a
\* WTO node n that is not a cycle head is the join over its predecessors p
\* of edge(p, n, post(p)), joined with init at the entry, on the final
\* post values.
C18_ExactAtVertices ==
  \A i \in Returned : \A n \in WtoNodeSet \ Heads :
    get(done[i].pre, n) =
      join(IF n = G.entry THEN done[i].init ELSE Bottom,
           JoinOver(Range(G.preds[n]), n, done[i].post))

\* a run has returned on A (H1 (H2 B1 B2)); the inner cycle was widened and
\* the vertex B1 of its body holds the value that passes the edge H2 -> B1
C18_Witness ==
  /\ conf.g = "nest"
  /\ conf.ef[<<"H2", "B1">>] = "le1"
  /\ done # <<>>
  /\ get(done[1].post, "H2").ub = PosInf
  /\ get(done[1].pre, "B1") = Mk(0, 1)

\* the post values the next step of the driver reads
ReadNext ==
  IF AtComponent("vertex") THEN Range(G.preds[top.comps[top.i].n])
  ELSE IF AtComponent("cycle") THEN Range(Incoming(top.comps[top.i].n))
  ELSE IF JoinEnabled THEN Range(G.preds[top.head])
  ELSE {}

\* C19: re-run without clear.  With the default hooks, a run on an iterator
\* that holds the invariants of an earlier run returns the tables of a run
\* from the same init on a new iterator, and the driver reads no post value
\* the earlier run left: what it reads was set in this run, or is bottom.
C19_RerunWithoutClear ==
  conf.hooks = "default" =>
    /\ \A i, j \in Returned :
         (done[j].clean /\ done[i].init = done[j].init) =>
           \A n \in WtoNodeSet : /\ get(done[i].pre, n) = get(done[j].pre, n)
                                 /\ get(done[i].post, n) = get(done[j].post, n)
    /\ mode = "iterate" =>
         \A p \in ReadNext : p \in stack[1].written \/ get(_post, p) = Bottom

\* the nodes a step of run() changes in the tables
Changed ==
  {n \in G.nodes : get(_pre', n) # get(_pre, n) \/ get(_post', n) # get(_post, n)}

\* the nodes of the root-level components the driver has left behind
NodesOf(comps) == Range(WtoNodes(comps))

RootDone ==
  LET k == IF Len(stack) = 1 THEN stack[1].i - 1 ELSE stack[1].i - 2
  IN  NodesOf(SubSeq(G.wto, 1, k))

\* C20: frame of a component visit.  A step of the driver changes pre and
\* post only at the vertex it visits and inside every cycle it is visiting;
\* the nodes of the root-level components already visited keep their
\* values, and the post-processor changes nothing.
C20_ComponentFrame ==
  [][Running =>
       /\ (mode = "iterate" /\ AtComponent("vertex")) =>
            Changed \subseteq {top.comps[top.i].n}
       /\ (mode = "iterate" /\ AtComponent("cycle")) => Changed = {}
       /\ \A k \in DOMAIN stack :
            stack[k].t = "cycle" =>
              Changed \subseteq {n \in WtoNodeSet : InCycle(n, stack[k].head)}
       /\ mode = "iterate" => Changed \cap RootDone = {}
       /\ mode = "process" => Changed = {}]_vars

\* the driver is at the loop join of the second cycle of A (H1 B) (H2 C),
\* after an extrapolation; the first cycle was left with its values
C20_Witness ==
  /\ conf.g = "sib"
  /\ JoinEnabled
  /\ top.head = "H2" /\ top.nExt >= 1
  /\ RootDone = {"A", "H1", "B"}
  /\ get(_post, "B") # Bottom

====
